---- MODULE Spec2Model ----
(***************************************************************************)
(* idea-architect-ai: the analyze-request orchestration of                 *)
(* analyzeStartup in its three snapshots (probe + one retry, fail over to  *)
(* the built-in function, direct function call); the projects table under  *)
(* its row-level policies with the storage functions that use it;          *)
(* AuthProvider and the Auth page; the AnalysisProgress simulator; and the *)
(* page layout of exportToPDF.                                             *)
(***************************************************************************)
EXTENDS Integers, Sequences, FiniteSets, TLC

VARIABLES
    variant,    \* which snapshot of analyzeStartup runs: "none" before the call
    idea,       \* the startupIdea argument: "" or a text
    pc,         \* where the invocation is suspended
    attempt,    \* the for loop's counter (retry snapshot)
    status,     \* status of the response whose headers have arrived
    timer,      \* seconds of the armed setTimeout, 0 when none is armed
    trace,      \* the requests sent and the sleeps started, in order
    att,        \* the settled analyze calls, in order
    probe,      \* how the health probe settled
    outcome,    \* "pending", "returned" or "threw"
    result,     \* the value returned
    err,        \* the message of the error thrown
    rows,       \* public.projects: id -> row
    nextId,     \* the id the next inserted row gets
    lastOp,     \* the last statement run against the table and what it did
    sent,       \* the columns the last update function sent
    updates,    \* how many calls of the update functions were made
    token,      \* localStorage 'access_token': null when there is none
    user,       \* AuthProvider's user state
    loading,    \* AuthProvider's loading state
    check,      \* where the mount-time checkAuth is: "mount", "me", "done"
    checkToken, \* the token checkAuth read
    checked,    \* how checkAuth ended
    flight,     \* the signIn and signUp calls awaiting their response
    isSubmitting, \* the Auth page's isSubmitting state
    lastAuth,   \* the user of the last sign-in or sign-up that succeeded
    authRet,    \* what the last signIn or signUp call returned
    isAnalyzing, \* AnalysisProgress's isAnalyzing prop
    currentStep, \* AnalysisProgress's currentStep state
    progress,   \* AnalysisProgress's progress state, in tenths of a percent
    stepIndex,  \* each live timer's stepIndex, by the timer's handle
    stepProgress, \* each live timer's stepProgress, by the timer's handle
    interval,   \* the handle the effect got from setInterval, or NoHandle
    timers,     \* the handles of the interval timers that are active
    nextHandle, \* the handle the next setInterval returns
    project,    \* exportToPDF's argument: target market and output fields
    pdfPc,      \* where exportToPDF is: "idle", "sections", "lines", "done"
    agent,      \* index into AGENT_CARDS of the for loop over the cards
    line,       \* index of the next wrapped line of the section
    yPosition,  \* exportToPDF's yPosition, in tenths of a millimetre
    pages,      \* pages of the document; drawing goes to the last one
    drawn,      \* the last text drawn: what, of which section, where
    rendered,   \* the blocks drawn so far, in order
    section     \* the section last begun: first line's y, lines, pages added

analyzeVars == <<variant, idea, pc, attempt, status, timer, trace, att, probe,
                 outcome, result, err>>
dbVars == <<rows, nextId, lastOp>>
updateVars == <<sent, updates>>
authVars == <<token, user, loading, check, checkToken, checked, flight,
              isSubmitting, lastAuth, authRet>>
progressVars == <<isAnalyzing, currentStep, progress, stepIndex,
                  stepProgress, interval, timers, nextHandle>>
pdfVars == <<project, pdfPc, agent, line, yPosition, pages, drawn, rendered,
             section>>
nonAnalyzeVars == <<dbVars, updateVars, authVars, progressVars, pdfVars>>
nonDbVars == <<analyzeVars, updateVars, authVars, progressVars, pdfVars>>
nonUpdateVars == <<analyzeVars, authVars, progressVars, pdfVars>>
nonAuthVars == <<analyzeVars, dbVars, updateVars, progressVars, pdfVars>>
nonProgressVars == <<analyzeVars, dbVars, updateVars, authVars, pdfVars>>
nonPdfVars == <<analyzeVars, dbVars, updateVars, authVars, progressVars>>
vars == <<variant, idea, pc, attempt, status, timer, trace, att, probe,
          outcome, result, err, rows, nextId, lastOp, sent, updates,
          token, user, loading, check, checkToken, checked, flight,
          isSubmitting, lastAuth, authRet, isAnalyzing, currentStep,
          progress, stepIndex, stepProgress, interval, timers, nextHandle,
          project, pdfPc, agent, line, yPosition, pages, drawn, rendered,
          section>>

----------------------------------------------------------------------------
(* Responses.                                                              *)

\* Statuses a backend answers with: success, client error, server errors.
Statuses == {200, 404, 500, 503}

\* response.ok
Ok(s) == s >= 200 /\ s <= 299

\* The error texts a JSON body may carry in its "error" member.
Messages == {"m1", "m2"}

\* A response body as the client sees it: not JSON at all, the JSON value
\* null, or a JSON object with (or without) success, error and analysis.
InvalidBody == [json |-> "invalid", success |-> "absent", error |-> "none",
                sections |-> "absent"]
NullBody == [json |-> "null", success |-> "absent", error |-> "none",
             sections |-> "absent"]
EmptyObject == [json |-> "object", success |-> "absent", error |-> "none",
                sections |-> "absent"]
ObjectBodies == [json : {"object"}, success : {"true", "false", "absent"},
                 error : Messages \cup {"none"},
                 sections : {"absent", "partial", "full"}]
Bodies == ObjectBodies \cup {InvalidBody, NullBody}

\* A settled HTTP call: a response, a network error, or the abort by the timer.
NoBody == [json |-> "none", success |-> "absent", error |-> "none",
           sections |-> "absent"]
Http(s, b) == [kind |-> "http", status |-> s, body |-> b]
NetworkError == [kind |-> "network", status |-> 0, body |-> NoBody]
Aborted == [kind |-> "timeout", status |-> 0, body |-> NoBody]

\* data.analysis of the body of call number n; undefined when there is none.
AnalysisOf(b, n) == [origin |-> n, sections |-> b.sections]
NoResult == [origin |-> 0, sections |-> "none"]

\* What a block of the function ends with.
Return(v) == [t |-> "return", v |-> v, msg |-> "none"]
Throw(m) == [t |-> "throw", v |-> NoResult, msg |-> m]
Retry == [t |-> "retry", v |-> NoResult, msg |-> "none"]
Fallback == [t |-> "fallback", v |-> NoResult, msg |-> "none"]

StatusMessage(s) ==
    "Analysis failed (" \o ToString(s)
        \o "). If the backend was sleeping, wait ~30s and try again."

\* data?.error || 'Analysis failed'
ErrorOr(b, default) == IF b.error # "none" THEN b.error ELSE default

----------------------------------------------------------------------------
(* analyzeStartup, retry snapshot: probe, analyze, one backoff and retry.  *)

HealthTimeoutMs == 12000
AnalyzeTimeoutMs == 180000
BackoffMs == 8000
MaxAttempts == 2

\* The loop's test, bounded one too low: the retry is never made.
LoopContinuesOnce(a) == a <= MaxAttempts - 1

\* for (let attempt = 1; attempt <= 2; attempt++): the loop's test.
LoopContinues(a) == a <= MaxAttempts

\* The probe without its try/catch: a rejected probe ends the invocation.
ProbeCatchRethrows(o) == IF o.kind = "http" THEN "continue" ELSE "throw"

\* The probe's try/catch: whatever the probe did, go on to analyze.
ProbeCatch(o) == "continue"

\* response.json().catch(() => ({})) of a non-OK response.
ErrorData(b) == IF b.json = "invalid" THEN EmptyObject ELSE b

\* The try block once fetch has resolved with status s and the body b has
\* been read.
TryBlock(a, s, b) ==
    IF ~Ok(s)
    THEN IF a = 1 /\ s >= 500
         THEN Retry
         ELSE IF ErrorData(b).json = "null"
              THEN Throw("TypeError")
              ELSE Throw(ErrorOr(ErrorData(b), StatusMessage(s)))
    ELSE IF b.json = "invalid"
         THEN Throw("SyntaxError")
         ELSE IF b.success # "true"
              THEN Throw(ErrorOr(b, "Analysis failed"))
              ELSE Return(AnalysisOf(b, a))

\* The catch block losing the caught error's message.
CatchBlockGeneric(a, m) ==
    IF a = 1 THEN Retry ELSE Throw("Analysis failed (backend unreachable)")

\* The catch block: the first attempt's failure is retried, a later one is
\* thrown to the caller with its message.
CatchBlock(a, m) == IF a = 1 THEN Retry ELSE Throw(m)

\* What one pass of the loop body ends with, the attempt having settled as o.
AttemptEnds(a, o) ==
    LET r == IF o.kind = "http" THEN TryBlock(a, o.status, o.body)
             ELSE IF o.kind = "network" THEN Throw("Failed to fetch")
             ELSE Throw("AbortError")
    IN  IF r.t = "throw" THEN CatchBlock(a, r.msg) ELSE r

\* The invocation goes on as the block's end r says.
Proceed(r) ==
    /\ status' = 0
    /\ CASE r.t = "return" ->
               /\ outcome' = "returned" /\ result' = r.v /\ pc' = "done"
               /\ timer' = 0
               /\ UNCHANGED <<err, trace>>
         [] r.t = "throw" ->
               /\ outcome' = "threw" /\ err' = r.msg /\ pc' = "done"
               /\ timer' = 0
               /\ UNCHANGED <<result, trace>>
         [] r.t = "retry" ->
               /\ pc' = "sleep" /\ timer' = BackoffMs
               /\ trace' = Append(trace, "sleep")
               /\ UNCHANGED <<outcome, result, err>>
         [] r.t = "fallback" ->
               /\ pc' = "function" /\ timer' = 0
               /\ trace' = Append(trace, "function")
               /\ UNCHANGED <<outcome, result, err>>

\* analyzeStartup(startupIdea, ...) is called: the probe is sent.
InvokeRetry ==
    /\ pc = "idle"
    /\ \E i \in {"", "an idea"} : idea' = i
    /\ variant' = "retry"
    /\ trace' = <<"health">>
    /\ timer' = HealthTimeoutMs
    /\ pc' = "probe"
    /\ UNCHANGED <<attempt, status, att, probe, outcome, result, err>>
    /\ UNCHANGED nonAnalyzeVars

\* The code after the probe's try/catch: the loop's first pass sends analyze.
AfterProbe(o) ==
    /\ probe' = o.kind
    /\ IF ProbeCatch(o) = "continue"
       THEN /\ attempt' = 1
            /\ trace' = Append(trace, "analyze")
            /\ timer' = AnalyzeTimeoutMs
            /\ pc' = "analyze"
            /\ UNCHANGED <<outcome, err>>
       ELSE /\ outcome' = "threw" /\ err' = "Failed to fetch" /\ pc' = "done"
            /\ timer' = 0
            /\ UNCHANGED <<attempt, trace>>
    /\ UNCHANGED <<variant, idea, status, att, result>>
    /\ UNCHANGED nonAnalyzeVars

\* The probe's fetch resolves (any status) or rejects.
ProbeSettles ==
    /\ pc = "probe"
    /\ \E o \in {Http(s, NoBody) : s \in Statuses} \cup {NetworkError} :
           AfterProbe(o)

\* The probe's timer fires: controller.abort() rejects the fetch.
ProbeTimeout ==
    /\ pc = "probe" /\ timer = HealthTimeoutMs
    /\ AfterProbe(Aborted)

\* The analyze fetch resolves: headers are in, the timer is cleared, and
\* response.json() starts reading the body.
AnalyzeHeaders ==
    /\ pc = "analyze"
    /\ \E s \in Statuses : status' = s
    /\ timer' = 0
    /\ pc' = "body"
    /\ UNCHANGED <<variant, idea, attempt, trace, att, probe, outcome, result, err>>
    /\ UNCHANGED nonAnalyzeVars

\* response.json() settles with the body (a body whose transfer breaks off
\* with an error reads like one that is not JSON: json() rejects).
AnalyzeBody ==
    /\ pc = "body"
    /\ \E b \in Bodies :
          LET o == Http(status, b) IN
          /\ att' = Append(att, o)
          /\ Proceed(AttemptEnds(attempt, o))
    /\ UNCHANGED <<variant, idea, attempt, probe>>
    /\ UNCHANGED nonAnalyzeVars

\* The analyze fetch rejects with a network error.
AnalyzeNetworkError ==
    /\ pc = "analyze"
    /\ att' = Append(att, NetworkError)
    /\ Proceed(AttemptEnds(attempt, NetworkError))
    /\ UNCHANGED <<variant, idea, attempt, probe>>
    /\ UNCHANGED nonAnalyzeVars

\* The analyze call's timer fires before the headers are in.
AnalyzeTimeout ==
    /\ pc = "analyze" /\ timer = AnalyzeTimeoutMs
    /\ att' = Append(att, Aborted)
    /\ Proceed(AttemptEnds(attempt, Aborted))
    /\ UNCHANGED <<variant, idea, attempt, probe>>
    /\ UNCHANGED nonAnalyzeVars

\* sleep(8000) resolves; continue: attempt++, the loop's test, the next call,
\* or the throw after the loop.
SleepDone ==
    /\ pc = "sleep" /\ timer = BackoffMs
    /\ attempt' = attempt + 1
    /\ IF LoopContinues(attempt + 1)
       THEN /\ trace' = Append(trace, "analyze")
            /\ timer' = AnalyzeTimeoutMs
            /\ pc' = "analyze"
            /\ UNCHANGED <<outcome, err>>
       ELSE /\ outcome' = "threw" /\ err' = "Analysis failed" /\ pc' = "done"
            /\ timer' = 0
            /\ UNCHANGED trace
    /\ UNCHANGED <<variant, idea, status, att, probe, result>>
    /\ UNCHANGED nonAnalyzeVars

----------------------------------------------------------------------------
(* analyzeStartup, failover snapshot: the Django API, then the built-in    *)
(* analyze-startup function.                                               *)

DjangoTimeoutMs == 15000

\* supabase.functions.invoke: {data, error} of the function's HTTP call.
\* A failed request, a non-2xx status and an unreadable body give an error
\* and no data.
FunctionsInvoke(o) ==
    IF o.kind # "http" THEN [error |-> "FunctionsFetchError", data |-> NullBody]
    ELSE IF ~Ok(o.status) THEN [error |-> "FunctionsHttpError", data |-> NullBody]
    ELSE IF o.body.json = "invalid" THEN [error |-> "SyntaxError", data |-> NullBody]
    ELSE [error |-> "none", data |-> o.body]

\* The try block of step 1 once the Django fetch has resolved and the body
\* has been read: a non-OK response falls through to step 2.
DjangoTry(s, b) ==
    IF Ok(s)
    THEN IF b.json = "invalid"
         THEN Throw("SyntaxError")
         ELSE IF b.success # "true"
              THEN Throw(ErrorOr(b, "Analysis failed"))
              ELSE Return(AnalysisOf(b, 1))
    ELSE Fallback

\* Step 1's catch block throwing on instead of falling back.
DjangoCatchRethrows(m) == Throw(m)

\* The catch block of step 1: log, and go on to step 2.
DjangoCatch(m) == Fallback

\* What step 1 ends with, the Django call having settled as o.
DjangoEnds(o) ==
    LET r == IF o.kind = "http" THEN DjangoTry(o.status, o.body)
             ELSE IF o.kind = "network" THEN Throw("Failed to fetch")
             ELSE Throw("AbortError")
    IN  IF r.t = "throw" THEN DjangoCatch(r.msg) ELSE r

\* Step 2 without the check of data.success.
FallbackBlockUnchecked(r) ==
    IF r.error # "none"
    THEN Throw("Analysis failed (backend temporarily unavailable)")
    ELSE Return(AnalysisOf(r.data, 2))

\* Step 2 on the function call's {data, error}.
FallbackBlock(r) ==
    IF r.error # "none"
    THEN Throw("Analysis failed (backend temporarily unavailable)")
    ELSE IF r.data.success # "true"
         THEN Throw(ErrorOr(r.data, "Analysis failed"))
         ELSE Return(AnalysisOf(r.data, 2))

\* analyzeStartup is called: the POST to the Django API is sent.
InvokeFailover ==
    /\ pc = "idle"
    /\ \E i \in {"", "an idea"} : idea' = i
    /\ variant' = "failover"
    /\ trace' = <<"django">>
    /\ timer' = DjangoTimeoutMs
    /\ pc' = "django"
    /\ UNCHANGED <<attempt, status, att, probe, outcome, result, err>>
    /\ UNCHANGED nonAnalyzeVars

\* The Django fetch resolves: the timer is cleared, response.json() starts.
DjangoHeaders ==
    /\ pc = "django"
    /\ \E s \in Statuses : status' = s
    /\ timer' = 0
    /\ pc' = "djangoBody"
    /\ UNCHANGED <<variant, idea, attempt, trace, att, probe, outcome, result, err>>
    /\ UNCHANGED nonAnalyzeVars

\* response.json() of the Django response settles.
DjangoBody ==
    /\ pc = "djangoBody"
    /\ \E b \in Bodies :
          LET o == Http(status, b) IN
          /\ att' = Append(att, o)
          /\ Proceed(DjangoEnds(o))
    /\ UNCHANGED <<variant, idea, attempt, probe>>
    /\ UNCHANGED nonAnalyzeVars

\* The Django fetch rejects with a network (or CORS) error.
DjangoNetworkError ==
    /\ pc = "django"
    /\ att' = Append(att, NetworkError)
    /\ Proceed(DjangoEnds(NetworkError))
    /\ UNCHANGED <<variant, idea, attempt, probe>>
    /\ UNCHANGED nonAnalyzeVars

\* The 15 s timer fires before the Django headers are in.
DjangoTimeout ==
    /\ pc = "django" /\ timer = DjangoTimeoutMs
    /\ att' = Append(att, Aborted)
    /\ Proceed(DjangoEnds(Aborted))
    /\ UNCHANGED <<variant, idea, attempt, probe>>
    /\ UNCHANGED nonAnalyzeVars

\* supabase.functions.invoke resolves in the failover snapshot.
FallbackSettles ==
    /\ pc = "function" /\ variant = "failover"
    /\ \E o \in {Http(s, b) : s \in Statuses, b \in Bodies} \cup {NetworkError} :
          /\ att' = Append(att, o)
          /\ Proceed(FallbackBlock(FunctionsInvoke(o)))
    /\ UNCHANGED <<variant, idea, attempt, probe>>
    /\ UNCHANGED nonAnalyzeVars

----------------------------------------------------------------------------
(* analyzeStartup, first snapshot: the built-in function alone.            *)

\* The function's body on {data, error}: data.success is read without ?.
DirectBlock(r) ==
    IF r.error # "none"
    THEN Throw(r.error)
    ELSE IF r.data.json = "null"
         THEN Throw("TypeError")
         ELSE IF r.data.success # "true"
              THEN Throw(ErrorOr(r.data, "Analysis failed"))
              ELSE Return(AnalysisOf(r.data, 1))

\* analyzeStartup is called: the function is invoked.
InvokeDirect ==
    /\ pc = "idle"
    /\ \E i \in {"", "an idea"} : idea' = i
    /\ variant' = "direct"
    /\ trace' = <<"function">>
    /\ pc' = "function"
    /\ UNCHANGED <<attempt, status, timer, att, probe, outcome, result, err>>
    /\ UNCHANGED nonAnalyzeVars

\* supabase.functions.invoke resolves in the first snapshot.
DirectSettles ==
    /\ pc = "function" /\ variant = "direct"
    /\ \E o \in {Http(s, b) : s \in Statuses, b \in Bodies} \cup {NetworkError} :
          /\ att' = Append(att, o)
          /\ Proceed(DirectBlock(FunctionsInvoke(o)))
    /\ UNCHANGED <<variant, idea, attempt, probe>>
    /\ UNCHANGED nonAnalyzeVars

----------------------------------------------------------------------------
(* public.projects under its row-level policies.  Row-level security is    *)
(* taken as enabled on the table (the migration replaces policies that     *)
(* only act when it is): a role no policy names sees and changes nothing.  *)

MaxProjects == 2
ProjectIds == 1..MaxProjects

Users == {"u1", "u2"}
Anon == "anon"
Callers == Users \cup {Anon}
Null == "null"

\* The seven output columns of a project, null until an analysis is stored.
OutputFields == {"market_analysis", "cost_prediction", "business_strategy",
                 "monetization", "legal_considerations", "tech_stack",
                 "strategist_critique"}
NoOutputs == [f \in OutputFields |-> Null]
Populated(r) == \A f \in OutputFields : r.out[f] # Null

NoRow == [user_id |-> Null, status |-> "absent", out |-> NoOutputs]
Present(r) == r.status # "absent"
StatusValues == {"pending", "analyzing", "completed", "failed"}

\* ADD COLUMN user_id, nullable and without default: the rows the table
\* held before the migration have no owner.
LegacyRow == [user_id |-> Null, status |-> "completed",
              out |-> [f \in OutputFields |-> "old"]]
LegacyTables ==
    { [i \in ProjectIds |-> NoRow],
      [i \in ProjectIds |-> IF i = 1 THEN LegacyRow ELSE NoRow] }

\* TO authenticated: the policies apply to signed-in callers only.
Authenticated(c) == c \in Users

\* auth.uid() = user_id; never true of a NULL user_id.
OwnsRow(c, r) == r.user_id # Null /\ r.user_id = c

\* A read policy left public: every row is visible.
SelectUsingPublic(c, r) == TRUE

\* "Users can view their own projects": FOR SELECT USING.
SelectUsing(c, r) == OwnsRow(c, r)

\* "Users can create their own projects": FOR INSERT WITH CHECK.
InsertCheck(c, r) == OwnsRow(c, r)

\* "Users can update their own projects": FOR UPDATE USING.
UpdateUsing(c, r) == OwnsRow(c, r)

\* The update policy has no WITH CHECK: its USING expression is applied to
\* the new row as well.
UpdateCheck(c, r) == UpdateUsing(c, r)

\* "Users can delete their own projects": FOR DELETE USING.
DeleteUsing(c, r) == OwnsRow(c, r)

\* What a statement did: who ran it, whether it raised an error, the rows
\* it returned to the caller.
NoOp == [kind |-> "none", caller |-> Anon, id |-> 0, ok |-> TRUE,
         returned |-> {}]
Op(k, c, i, ok, ret) ==
    [kind |-> k, caller |-> c, id |-> i, ok |-> ok, returned |-> ret]
Returned(i) == [id |-> i, user_id |-> rows[i].user_id, status |-> rows[i].status]

\* The rows caller c can see.
VisibleIds(c) ==
    {i \in ProjectIds :
        Present(rows[i]) /\ Authenticated(c) /\ SelectUsing(c, rows[i])}

\* INSERT of row r by caller c, RETURNING the row when asked to.
InsertRow(kind, c, r) ==
    /\ nextId <= MaxProjects
    /\ IF Authenticated(c) /\ InsertCheck(c, r)
       THEN /\ rows' = [rows EXCEPT ![nextId] = r]
            /\ nextId' = nextId + 1
            /\ lastOp' = Op(kind, c, nextId, TRUE,
                            {[id |-> nextId, user_id |-> r.user_id,
                              status |-> r.status]})
       ELSE /\ lastOp' = Op(kind, c, 0, FALSE, {})
            /\ UNCHANGED <<rows, nextId>>

\* UPDATE ... WHERE id = i by caller c, the row becoming r: a row the caller
\* may not update is not matched, and no row matched is no error.
UpdateRow(kind, c, i, r) ==
    IF Present(rows[i]) /\ i \in VisibleIds(c) /\ UpdateUsing(c, rows[i])
    THEN IF UpdateCheck(c, r)
         THEN /\ rows' = [rows EXCEPT ![i] = r]
              /\ lastOp' = Op(kind, c, i, TRUE, {})
              /\ UNCHANGED nextId
         ELSE /\ lastOp' = Op(kind, c, i, FALSE, {})
              /\ UNCHANGED <<rows, nextId>>
    ELSE /\ lastOp' = Op(kind, c, 0, TRUE, {})
         /\ UNCHANGED <<rows, nextId>>

\* The members of an AnalysisResult and the columns they are stored in.
KeyOf == [market_analysis |-> "marketAnalysis",
          cost_prediction |-> "costPrediction",
          business_strategy |-> "businessStrategy",
          monetization |-> "monetization",
          legal_considerations |-> "legalConsiderations",
          tech_stack |-> "techStack",
          strategist_critique |-> "strategistCritique"]
AnalysisKeys == {KeyOf[f] : f \in OutputFields}
Undefined == "undefined"

\* The analyses handed to updateProjectAnalysis: two with every member a
\* text, one with a single member, the empty object.
Analyses ==
    { [k \in AnalysisKeys |-> "a"],
      [k \in AnalysisKeys |-> "b"],
      [k \in AnalysisKeys |-> IF k = "marketAnalysis" THEN "a" ELSE Undefined],
      [k \in AnalysisKeys |-> Undefined] }

\* The object given to update(): the columns it sets.  A member whose
\* value is undefined is left out of the request body.
Unsent == "unsent"
NoPayload == [status |-> Unsent, out |-> [f \in OutputFields |-> Unsent]]
StatusPayload(st) == [status |-> st, out |-> [f \in OutputFields |-> Unsent]]
AnalysisPayload(a) ==
    [status |-> "completed",
     out |-> [f \in OutputFields |->
                 IF a[KeyOf[f]] = Undefined THEN Unsent ELSE a[KeyOf[f]]]]

\* An update that stores the object sent as the whole record: a column the
\* object does not name becomes null.
SetColumnsWhole(r, p) ==
    [user_id |-> r.user_id,
     status |-> IF p.status = Unsent THEN Null ELSE p.status,
     out |-> [f \in OutputFields |->
                 IF p.out[f] = Unsent THEN Null ELSE p.out[f]]]

\* UPDATE projects SET <the columns sent>: every other column of the row
\* keeps its value.
SetColumns(r, p) ==
    [user_id |-> r.user_id,
     status |-> IF p.status = Unsent THEN r.status ELSE p.status,
     out |-> [f \in OutputFields |->
                 IF p.out[f] = Unsent THEN r.out[f] ELSE p.out[f]]]

\* The update calls followed in one run.
MaxUpdates == 2

\* updateProjectStatus(id, status): update({ status }).eq('id', id).
UpdateProjectStatus ==
    /\ updates < MaxUpdates
    /\ updates' = updates + 1
    /\ \E c \in Callers, i \in ProjectIds, st \in StatusValues :
          /\ UpdateRow("updateProjectStatus", c, i,
                       SetColumns(rows[i], StatusPayload(st)))
          /\ sent' = StatusPayload(st)
    /\ UNCHANGED nonUpdateVars

\* updateProjectAnalysis(id, analysis): update({ the seven columns from the
\* analysis, status: 'completed' }).eq('id', id).
UpdateProjectAnalysis ==
    /\ updates < MaxUpdates
    /\ updates' = updates + 1
    /\ \E c \in Callers, i \in ProjectIds, a \in Analyses :
          /\ UpdateRow("updateProjectAnalysis", c, i,
                       SetColumns(rows[i], AnalysisPayload(a)))
          /\ sent' = AnalysisPayload(a)
    /\ UNCHANGED nonUpdateVars

\* updateProjectAnalysis(id, undefined): reading analysis.marketAnalysis
\* throws before any request is made.
UpdateProjectAnalysisUndefined ==
    /\ updates < MaxUpdates
    /\ updates' = updates + 1
    /\ \E c \in Callers :
          lastOp' = Op("updateProjectAnalysis", c, 0, FALSE, {})
    /\ sent' = NoPayload
    /\ UNCHANGED <<rows, nextId>>
    /\ UNCHANGED nonUpdateVars

\* SELECT * FROM projects, by any caller.
RawSelect ==
    /\ \E c \in Callers :
          lastOp' = Op("select", c, 0, TRUE, {Returned(i) : i \in VisibleIds(c)})
    /\ UNCHANGED <<rows, nextId>>
    /\ UNCHANGED nonDbVars

\* INSERT with any user_id the caller cares to send.
RawInsert ==
    /\ \E c \in Callers, o \in Users \cup {Null} :
          InsertRow("insert", c, [user_id |-> o, status |-> "pending",
                                  out |-> NoOutputs])
    /\ UNCHANGED nonDbVars

\* UPDATE of one row's user_id or status, by any caller.
RawUpdate ==
    /\ \E c \in Callers, i \in ProjectIds :
          \/ \E o \in Users \cup {Null} :
                UpdateRow("update", c, i, [rows[i] EXCEPT !.user_id = o])
          \/ \E st \in StatusValues :
                UpdateRow("update", c, i, [rows[i] EXCEPT !.status = st])
    /\ UNCHANGED nonDbVars

\* DELETE ... WHERE id = i, by any caller: no row matched is no error.
RawDelete ==
    /\ \E c \in Callers, i \in ProjectIds :
          IF Present(rows[i]) /\ i \in VisibleIds(c) /\ DeleteUsing(c, rows[i])
          THEN /\ rows' = [rows EXCEPT ![i] = NoRow]
               /\ lastOp' = Op("delete", c, i, TRUE, {})
          ELSE /\ lastOp' = Op("delete", c, 0, TRUE, {})
               /\ UNCHANGED rows
    /\ UNCHANGED nextId
    /\ UNCHANGED nonDbVars

\* createProject: insert({startup_idea, target_market, status: 'pending'})
\* .select().single(); user_id is not sent, and the column has no default.
CreateProject ==
    /\ \E c \in Callers :
          InsertRow("createProject", c, [user_id |-> Null, status |-> "pending",
                                         out |-> NoOutputs])
    /\ UNCHANGED nonDbVars

\* getProjects: select('*').order('created_at', descending).
GetProjects ==
    /\ \E c \in Callers :
          lastOp' = Op("getProjects", c, 0, TRUE,
                       {Returned(i) : i \in VisibleIds(c)})
    /\ UNCHANGED <<rows, nextId>>
    /\ UNCHANGED nonDbVars

\* A delete that matches whatever row has the id, whoever owns it.
DeleteMatchesAnyRow(c, i) == Present(rows[i])

\* delete().eq('id', id) under the policies: the row matched, if any.
DeleteMatches(c, i) ==
    Present(rows[i]) /\ i \in VisibleIds(c) /\ DeleteUsing(c, rows[i])

\* deleteProject(id): a delete that matches no row is no error, and the
\* function returns nothing either way.
DeleteProject ==
    /\ \E c \in Callers, i \in ProjectIds :
          /\ rows' = IF DeleteMatches(c, i)
                      THEN [rows EXCEPT ![i] = NoRow] ELSE rows
          /\ lastOp' = Op("deleteProject", c, i, TRUE, {})
    /\ UNCHANGED nextId
    /\ UNCHANGED nonDbVars

\* getProject(id): select('*').eq('id', id).single(); the one row when the
\* caller sees it, and with no row single() answers an error, which the
\* function throws.
GetProject ==
    /\ \E c \in Callers, i \in ProjectIds :
          lastOp' = IF i \in VisibleIds(c)
                    THEN Op("getProject", c, i, TRUE, {Returned(i)})
                    ELSE Op("getProject", c, i, FALSE, {})
    /\ UNCHANGED <<rows, nextId>>
    /\ UNCHANGED nonDbVars

NextProjects ==
    \/ RawInsert
    \/ CreateProject
    \/ UpdateProjectStatus
    \/ UpdateProjectAnalysis
    \/ UpdateProjectAnalysisUndefined

NextDb ==
    \/ RawSelect
    \/ RawInsert
    \/ RawUpdate
    \/ RawDelete
    \/ CreateProject
    \/ GetProjects
    \/ GetProject
    \/ DeleteProject

----------------------------------------------------------------------------
(* AuthProvider: the token check on mount, signUp, signIn, signOut; and    *)
(* the Auth page, which calls signIn and signUp from its form.             *)

\* The access tokens the backend issues, and whose they are.
TokenOf == [u1 |-> "t1", u2 |-> "t2"]
Tokens == {TokenOf[u] : u \in Users}
UserOf(t) == CHOOSE u \in Users : TokenOf[u] = t

\* How an auth request settles: a 2xx answer carrying { token, user }, a
\* non-2xx answer carrying an error text or none, a body that is not JSON,
\* or no answer at all.
AuthOk(u) == [kind |-> "ok", user |-> u, error |-> "none"]
AuthRefused(m) == [kind |-> "refused", user |-> Null, error |-> m]
AuthInvalidBody == [kind |-> "invalid", user |-> Null, error |-> "none"]
AuthNetworkError == [kind |-> "network", user |-> Null, error |-> "none"]
\* An answer whose body is the JSON value null.
AuthNullBody == [kind |-> "nullbody", user |-> Null, error |-> "none"]
AuthAnswers ==
    {AuthOk(u) : u \in Users}
        \cup {AuthRefused(m) : m \in Messages \cup {"none"}}
        \cup {AuthInvalidBody, AuthNetworkError, AuthNullBody}

\* checkAuth whose catch block leaves the token in place.
TokenAfterCheckKept(a, t) == IF a.kind = "refused" THEN Null ELSE t

\* The stored token once checkAuth has handled answer a, t being stored:
\* removed in the else branch and in the catch block.
TokenAfterCheck(a, t) == IF a.kind = "ok" THEN t ELSE Null

\* checkAuth up to its request: with no token stored it only ends loading.
Mount ==
    /\ check = "mount"
    /\ checkToken' = token
    /\ IF token = Null
       THEN /\ loading' = FALSE
            /\ check' = "done"
            /\ checked' = "no token"
       ELSE /\ check' = "me"
            /\ UNCHANGED <<loading, checked>>
    /\ UNCHANGED <<token, user, flight, isSubmitting, lastAuth, authRet>>
    /\ UNCHANGED nonAuthVars

\* The /auth/me request settles: setUser(data.user) when it is OK, the
\* token removed otherwise, and loading ended in every case.
CheckSettles ==
    /\ check = "me"
    /\ \E a \in {AuthOk(UserOf(checkToken)), AuthRefused("none"),
                  AuthInvalidBody, AuthNetworkError} :
          /\ user' = IF a.kind = "ok" THEN a.user ELSE user
          /\ token' = TokenAfterCheck(a, token)
          /\ checked' = a.kind
    /\ loading' = FALSE
    /\ check' = "done"
    /\ UNCHANGED <<checkToken, flight, isSubmitting, lastAuth, authRet>>
    /\ UNCHANGED nonAuthVars

AuthOps == {"signIn", "signUp"}
DefaultError == [signIn |-> "Login failed", signUp |-> "Registration failed"]

\* The calls of signIn and signUp followed at one time.
MaxInFlight == 2

\* A consumer of the context calls signIn or signUp: the request is sent.
CallAuth ==
    /\ Len(flight) < MaxInFlight
    /\ \E op \in AuthOps :
          flight' = Append(flight, [op |-> op, via |-> "hook"])
    /\ UNCHANGED <<token, user, loading, check, checkToken, checked,
                   isSubmitting, lastAuth, authRet>>
    /\ UNCHANGED nonAuthVars

\* The Auth page's handleSubmit: the form is rendered once loading is
\* over and is disabled while a submit is under way.
HandleSubmit ==
    /\ ~loading
    /\ ~isSubmitting
    /\ isSubmitting' = TRUE
    /\ \E op \in AuthOps :
          flight' = Append(flight, [op |-> op, via |-> "page"])
    /\ UNCHANGED <<token, user, loading, check, checkToken, checked,
                   lastAuth, authRet>>
    /\ UNCHANGED nonAuthVars

\* What signIn or signUp returns as its error: null on success.
AuthError(op, a) ==
    CASE a.kind = "ok" -> Null
      [] a.kind = "refused" ->
             IF a.error # "none" THEN a.error ELSE DefaultError[op]
      [] a.kind = "invalid" -> "SyntaxError"
      [] a.kind = "nullbody" -> "TypeError"
      [] OTHER -> "Failed to fetch"

\* How a call of signIn or signUp ends: resolved to { error }, or raised.
AuthReturn(e) == [t |-> "return", error |-> e]
AuthThrow(e) == [t |-> "throw", error |-> e]
NoAuthRet == [t |-> "none", error |-> Null]

\* The try block throws: fetch rejects, response.json() rejects, or a
\* member of null is read.
AuthThrows(a) == a.kind \in {"network", "invalid", "nullbody"}

\* signIn without its catch block: what is thrown leaves the function.
AuthCatchRethrows(e) == AuthThrow(e)

\* catch (error) { return { error: ... } }
AuthCatch(e) == AuthReturn(e)

\* What the call ends with, its request having settled as a.
AuthResult(op, a) ==
    IF AuthThrows(a) THEN AuthCatch(AuthError(op, a))
    ELSE AuthReturn(AuthError(op, a))

Remove(q, n) == SubSeq(q, 1, n - 1) \o SubSeq(q, n + 1, Len(q))

\* A signIn or signUp request settles: on a 2xx answer the token is stored
\* and the user set; otherwise the error is returned and nothing changes.
AuthSettles ==
    /\ \E n \in 1..Len(flight), a \in AuthAnswers :
          /\ flight' = Remove(flight, n)
          /\ authRet' = AuthResult(flight[n].op, a)
          /\ isSubmitting' = IF flight[n].via = "page" THEN FALSE
                               ELSE isSubmitting
          /\ IF a.kind = "ok"
             THEN /\ token' = TokenOf[a.user]
                  /\ user' = a.user
                  /\ lastAuth' = a.user
             ELSE UNCHANGED <<token, user, lastAuth>>
    /\ UNCHANGED <<loading, check, checkToken, checked>>
    /\ UNCHANGED nonAuthVars

\* signOut: the token removed, the user cleared.
SignOut ==
    /\ token' = Null
    /\ user' = Null
    /\ UNCHANGED <<loading, check, checkToken, checked, flight, isSubmitting,
                   lastAuth, authRet>>
    /\ UNCHANGED nonAuthVars

\* The provider with any consumer calling it at any time.
NextAuth ==
    \/ Mount
    \/ CheckSettles
    \/ CallAuth
    \/ AuthSettles
    \/ SignOut

\* The provider with signIn and signUp called from the Auth page.
NextAuthPage ==
    \/ Mount
    \/ CheckSettles
    \/ HandleSubmit
    \/ AuthSettles
    \/ SignOut

----------------------------------------------------------------------------
(* AnalysisProgress: the effect that simulates progress through the steps  *)
(* while isAnalyzing is true.  Percentages are kept in tenths.             *)

\* ANALYSIS_STEPS[i].duration, i = 0..4.
StepDurations == <<5, 10, 10, 10, 10>>
NumSteps == Len(StepDurations)
Tenths == 10
ProgressCap == 95 * Tenths

Min(a, b) == IF a <= b THEN a ELSE b

\* The progress with the phases already completed left out.
TotalStepsCompleteDropped(i) == 0

\* The value shown without the cap.
Uncapped(p) == p

\* Math.min(..., 95)
Capped(p) == Min(p, ProgressCap)

\* (stepIndex / ANALYSIS_STEPS.length) * 100
TotalStepsComplete(i) == (i * 100 * Tenths) \div NumSteps

\* (stepProgress / stepDuration) * (100 / ANALYSIS_STEPS.length)
CurrentStepProgress(sp, d) == (sp * ((100 * Tenths) \div NumSteps)) \div d

\* The effect runs at most MaxAnalyses times with isAnalyzing true.
MaxAnalyses == 2
NoHandle == 0

\* The closures of the timers in ts.
Restrict(f, ts) == [h \in ts |-> f[h]]

\* clearInterval(h)
ClearInterval(ts, h) == ts \ {h}

\* An effect without its cleanup: the timer stays.
NoCleanup(ts, h) == ts

\* return () => clearInterval(interval)
Cleanup(ts, h) == ClearInterval(ts, h)

\* isAnalyzing becomes true: the effect runs and starts its interval with
\* its own stepIndex and stepProgress.
StartAnalysis ==
    /\ ~isAnalyzing
    /\ nextHandle <= MaxAnalyses
    /\ isAnalyzing' = TRUE
    /\ interval' = nextHandle
    /\ nextHandle' = nextHandle + 1
    /\ timers' = timers \cup {nextHandle}
    /\ stepIndex' = [h \in timers' |->
                        IF h = nextHandle THEN 0 ELSE stepIndex[h]]
    /\ stepProgress' = [h \in timers' |->
                           IF h = nextHandle THEN 0 ELSE stepProgress[h]]
    /\ UNCHANGED <<currentStep, progress>>
    /\ UNCHANGED nonProgressVars

\* The callback of an active interval, every 100 ms.
Tick ==
    /\ \E h \in timers :
          IF stepIndex[h] >= NumSteps
          THEN /\ timers' = ClearInterval(timers, h)
               /\ stepIndex' = Restrict(stepIndex, timers')
               /\ stepProgress' = Restrict(stepProgress, timers')
               /\ UNCHANGED <<currentStep, progress>>
          ELSE LET stepDuration == StepDurations[stepIndex[h] + 1] * 10
                   sp == stepProgress[h] + 1
               IN  /\ progress' = Capped(TotalStepsComplete(stepIndex[h])
                                        + CurrentStepProgress(sp, stepDuration))
                   /\ currentStep' = stepIndex[h]
                   /\ IF sp >= stepDuration
                      THEN /\ stepIndex' =
                                [stepIndex EXCEPT ![h] = stepIndex[h] + 1]
                           /\ stepProgress' = [stepProgress EXCEPT ![h] = 0]
                      ELSE /\ stepIndex' = stepIndex
                           /\ stepProgress' = [stepProgress EXCEPT ![h] = sp]
                   /\ UNCHANGED timers
    /\ UNCHANGED <<isAnalyzing, interval, nextHandle>>
    /\ UNCHANGED nonProgressVars

\* isAnalyzing becomes false: the cleanup of the last effect runs, then the
\* effect resets both states.
StopAnalysis ==
    /\ isAnalyzing
    /\ isAnalyzing' = FALSE
    /\ timers' = Cleanup(timers, interval)
    /\ stepIndex' = Restrict(stepIndex, timers')
    /\ stepProgress' = Restrict(stepProgress, timers')
    /\ interval' = NoHandle
    /\ currentStep' = 0
    /\ progress' = 0
    /\ UNCHANGED nextHandle
    /\ UNCHANGED nonProgressVars

NextProgress ==
    \/ StartAnalysis
    \/ Tick
    \/ StopAnalysis

----------------------------------------------------------------------------
(* exportToPDF: the layout of the report.  Lengths are kept in tenths of a *)
(* millimetre; a text is known by the number of lines wrapText makes of it. *)

Unit == 10
PageHeight == 297 * Unit
TopOfPage == 25 * Unit
LineHeight == (9 * Unit) \div 2
HeaderAdvance == 16 * Unit
SectionGap == 10 * Unit
FooterY == PageHeight - 10 * Unit

\* AGENT_CARDS, by id.
AGENT_CARDS == <<"marketAnalysis", "costPrediction", "businessStrategy",
                 "monetization", "legalConsiderations", "techStack",
                 "strategistCritique">>

\* The line counts of the texts exported: one that fits any page's rest,
\* one that does not.
ShortLines == 1
LongLines == 70

\* An output field: null, the empty string, or a text of n wrapped lines.
NullContent == -1
EmptyText == 0
Contents == {NullContent, EmptyText, ShortLines, LongLines}

\* The projects exported: at most one section is long.
Projects ==
    { p \in [market : BOOLEAN, content : [AnalysisKeys -> Contents]] :
        \A a, b \in AnalysisKeys :
            (p.content[a] > ShortLines /\ p.content[b] > ShortLines) => a = b }
NoProject == [market |-> FALSE, content |-> [a \in AnalysisKeys |-> NullContent]]

NoDraw == [kind |-> "none", agent |-> "none", line |-> 0, page |-> 0, y |-> 0]
NoSection == [agent |-> "none", firstLineY |-> 0, lines |-> 0, added |-> 0]

\* wrapText(content, ...).length: the empty string makes one empty line.
WrappedLines(c) == IF c = EmptyText THEN 1 ELSE c

\* A loop that skips the null fields only.
SkippedIfNull(c) == c = NullContent

\* if (!content) continue
Skipped(c) == c = NullContent \/ c = EmptyText

\* A header that is never moved to a new page.
HeaderNeverNeedsPage(y) == FALSE

\* if (yPosition > pageHeight - 60), before a section header
HeaderNeedsPage(y) == y > PageHeight - 60 * Unit

\* A line loop that breaks the page at the header's margin.
LineNeedsPageEarly(y) == y > PageHeight - 60 * Unit

\* if (yPosition > pageHeight - 20), before a line
LineNeedsPage(y) == y > PageHeight - 20 * Unit

\* yPosition after the title, subtitle, divider, idea box, target market
\* box (if any) and the date line.
AfterHeader(p) ==
    TopOfPage + 30 * Unit + 15 * Unit + 15 * Unit + 50 * Unit
        + (IF p.market THEN 30 * Unit ELSE 0) + 20 * Unit

\* exportToPDF(project) up to the loop over the cards.
ExportToPDF ==
    /\ pdfPc = "idle"
    /\ \E p \in Projects :
          /\ project' = p
          /\ yPosition' = AfterHeader(p)
          /\ rendered' = <<"title", "idea">>
                            \o (IF p.market THEN <<"market">> ELSE <<>>)
                            \o <<"date">>
    /\ pages' = 1
    /\ agent' = 1
    /\ line' = 0
    /\ drawn' = NoDraw
    /\ section' = NoSection
    /\ pdfPc' = "sections"
    /\ UNCHANGED nonPdfVars

\* One pass of the loop over the cards, up to the section's lines: a card
\* without content is passed over; otherwise the header is drawn, on a new
\* page if need be.
SectionStart ==
    /\ pdfPc = "sections"
    /\ agent <= Len(AGENT_CARDS)
    /\ LET a == AGENT_CARDS[agent]
           brk == HeaderNeedsPage(yPosition)
           y == IF brk THEN TopOfPage ELSE yPosition
           pg == IF brk THEN pages + 1 ELSE pages
       IN  IF Skipped(project.content[a])
           THEN /\ agent' = agent + 1
                /\ UNCHANGED <<pdfPc, line, yPosition, pages, drawn, rendered,
                               section>>
           ELSE /\ pages' = pg
                /\ drawn' = [kind |-> "header", agent |-> a, line |-> 0,
                             page |-> pg, y |-> y]
                /\ rendered' = Append(rendered, a)
                /\ yPosition' = y + HeaderAdvance
                /\ section' = [agent |-> a, firstLineY |-> y + HeaderAdvance,
                               lines |-> 0, added |-> 0]
                /\ line' = 1
                /\ pdfPc' = "lines"
                /\ UNCHANGED agent
    /\ UNCHANGED project
    /\ UNCHANGED nonPdfVars

\* One pass of the loop over the section's lines; after the last line the
\* gap below the section.
DrawLine ==
    /\ pdfPc = "lines"
    /\ LET a == AGENT_CARDS[agent]
           brk == LineNeedsPage(yPosition)
           y == IF brk THEN TopOfPage ELSE yPosition
           pg == IF brk THEN pages + 1 ELSE pages
       IN  /\ pages' = pg
           /\ drawn' = [kind |-> "line", agent |-> a, line |-> line,
                        page |-> pg, y |-> y]
           /\ section' = [section EXCEPT !.lines = @ + 1,
                                         !.added = @ + (pg - pages)]
           /\ IF line >= WrappedLines(project.content[a])
              THEN /\ yPosition' = y + LineHeight + SectionGap
                   /\ agent' = agent + 1
                   /\ line' = 0
                   /\ pdfPc' = "sections"
              ELSE /\ yPosition' = y + LineHeight
                   /\ line' = line + 1
                   /\ UNCHANGED <<agent, pdfPc>>
    /\ UNCHANGED <<project, rendered>>
    /\ UNCHANGED nonPdfVars

\* After the loop: the footer on the last page, and the file saved.
Finish ==
    /\ pdfPc = "sections"
    /\ agent > Len(AGENT_CARDS)
    /\ drawn' = [kind |-> "footer", agent |-> "none", line |-> 0,
                 page |-> pages, y |-> FooterY]
    /\ rendered' = Append(rendered, "footer")
    /\ pdfPc' = "done"
    /\ UNCHANGED <<project, agent, line, yPosition, pages, section>>
    /\ UNCHANGED nonPdfVars

NextPdf ==
    \/ ExportToPDF
    \/ SectionStart
    \/ DrawLine
    \/ Finish

----------------------------------------------------------------------------
(* The specifications: one invocation of analyzeStartup, in any snapshot;  *)
(* the statements run against the table; the update functions; the auth    *)
(* provider, alone and under the Auth page; the progress simulator; one    *)
(* export.  Each leaves the other parts' variables as they are.            *)

\* Before analyzeStartup is called; the table as the migration leaves it.
Init ==
    /\ variant = "none"
    /\ idea = ""
    /\ pc = "idle"
    /\ attempt = 0
    /\ status = 0
    /\ timer = 0
    /\ trace = <<>>
    /\ att = <<>>
    /\ probe = "none"
    /\ outcome = "pending"
    /\ result = NoResult
    /\ err = "none"
    /\ rows \in LegacyTables
    /\ nextId = 1 + Cardinality({i \in ProjectIds : Present(rows[i])})
    /\ lastOp = NoOp
    /\ sent = NoPayload
    /\ updates = 0
    /\ token \in {Null, TokenOf["u1"]}
    /\ user = Null
    /\ loading = TRUE
    /\ check = "mount"
    /\ checkToken = Null
    /\ checked = "none"
    /\ flight = <<>>
    /\ isSubmitting = FALSE
    /\ lastAuth = Null
    /\ authRet = NoAuthRet
    /\ isAnalyzing = FALSE
    /\ currentStep = 0
    /\ progress = 0
    /\ stepIndex = <<>>
    /\ stepProgress = <<>>
    /\ interval = NoHandle
    /\ timers = {}
    /\ nextHandle = 1
    /\ project = NoProject
    /\ pdfPc = "idle"
    /\ agent = 0
    /\ line = 0
    /\ yPosition = 0
    /\ pages = 0
    /\ drawn = NoDraw
    /\ rendered = <<>>
    /\ section = NoSection

\* A timer of the invocation fires.
TimerFires ==
    \/ ProbeTimeout
    \/ AnalyzeTimeout
    \/ SleepDone
    \/ DjangoTimeout

NextAnalyze ==
    \/ InvokeRetry
    \/ ProbeSettles
    \/ ProbeTimeout
    \/ AnalyzeHeaders
    \/ AnalyzeBody
    \/ AnalyzeNetworkError
    \/ AnalyzeTimeout
    \/ SleepDone
    \/ InvokeFailover
    \/ DjangoHeaders
    \/ DjangoBody
    \/ DjangoNetworkError
    \/ DjangoTimeout
    \/ FallbackSettles
    \/ InvokeDirect
    \/ DirectSettles

SpecAnalyze == Init /\ [][NextAnalyze]_vars

\* The browser runs every timer that is due; the backend owes nothing.
FairAnalyze == SpecAnalyze /\ WF_vars(TimerFires)

SpecDb == Init /\ [][NextDb]_vars

SpecProjects == Init /\ [][NextProjects]_vars

SpecAuth == Init /\ [][NextAuth]_vars

SpecAuthPage == Init /\ [][NextAuthPage]_vars

SpecProgress == Init /\ [][NextProgress]_vars

\* The browser runs the callback of an active interval every 100 ms.
FairProgress == SpecProgress /\ WF_vars(Tick)

SpecPdf == Init /\ [][NextPdf]_vars

----------------------------------------------------------------------------
(* Properties of analyzeStartup.                                           *)

Last(q) == q[Len(q)]
IsPrefix(p, q) == Len(p) <= Len(q) /\ SubSeq(q, 1, Len(p)) = p
Count(q, x) == Cardinality({i \in 1..Len(q) : q[i] = x})

\* A settled call that is no success: transport failure, non-2xx status, or
\* a body that does not say success true.
Failed(o) == o.kind # "http" \/ ~Ok(o.status) \/ o.body.success # "true"

\* A response that carries a body whose success flag is false or absent.
FailureBody(o) ==
    o.kind = "http" /\ o.body.json = "object" /\ o.body.success # "true"

\* A response whose body is the JSON value null.
NullResponse(o) == o.kind = "http" /\ o.body.json = "null"

\* The message of the failure of a settled analyze call of the retry snapshot.
FailureText(o) ==
    CASE o.kind = "network" -> "Failed to fetch"
      [] o.kind = "timeout" -> "AbortError"
      [] OTHER ->
           IF Ok(o.status)
           THEN IF o.body.json = "invalid" THEN "SyntaxError"
                ELSE IF o.body.error # "none" THEN o.body.error
                ELSE "Analysis failed"
           ELSE IF o.body.json = "null" THEN "TypeError"
                ELSE IF o.body.error # "none" THEN o.body.error
                ELSE StatusMessage(o.status)

\* C1: an invocation that returns, returns an analysis with all seven
\* sections present and populated (it never returns a missing or partial
\* analysis).
C1_ReturnsAllSections ==
    outcome = "returned" => result.sections = "full"

\* Retry snapshot, the first attempt answered 5xx: the requests are the
\* probe, the call, one backoff of 8 s and at most one more call; the
\* invocation does not end before the second call has settled; a second
\* response of 200 with success true is returned as the result.
RetriedOnceAfter5xx ==
    (variant = "retry" /\ Len(att) >= 1 /\ att[1].kind = "http"
        /\ att[1].status >= 500)
    => /\ IsPrefix(trace, <<"health", "analyze", "sleep", "analyze">>)
       /\ Len(trace) >= 3
       /\ (pc = "sleep" => timer = 8000 /\ Len(trace) = 3)
       /\ (pc = "done" => Len(att) = 2)
       /\ (Len(att) = 2 => Len(trace) = 4)
       /\ (Len(att) = 2 /\ att[2].kind = "http" /\ att[2].status = 200
             /\ att[2].body.success = "true"
           => /\ outcome = "returned"
              /\ result = AnalysisOf(att[2].body, 2))

\* C2: retry snapshot, first attempt answered 5xx: one backoff of 8 s is
\* waited, then exactly one more analyze call is made (the backoff always
\* ends in that call), and a second response of 200 with success true is
\* returned as the result.
C2_RetryOnceAfter5xx ==
    /\ []RetriedOnceAfter5xx
    /\ ((variant = "retry" /\ pc = "sleep" /\ att[1].kind = "http"
            /\ att[1].status >= 500)
        ~> (Count(trace, "analyze") = 2))

C2_Witness ==
    /\ variant = "retry" /\ Len(att) = 2
    /\ att[1].kind = "http" /\ att[1].status = 503
    /\ att[2].kind = "http" /\ att[2].status = 200
    /\ att[2].body.success = "true" /\ att[2].body.sections = "full"
    /\ outcome = "returned" /\ result.origin = 2

\* C3: retry snapshot: at most two analyze calls are made, and when both
\* fail the error thrown carries the message of the second failure.
C3_SecondFailureSurfaces ==
    variant = "retry"
    => /\ Count(trace, "analyze") <= 2
       /\ Len(att) <= 2
       /\ (Len(att) = 2 /\ Failed(att[1]) /\ Failed(att[2])
           => /\ pc = "done" /\ outcome = "threw"
              /\ err = FailureText(att[2]))

C3_Witness ==
    /\ variant = "retry" /\ Len(att) = 2
    /\ att[1].kind = "http" /\ att[1].status = 200 /\ att[1].body.error = "m1"
    /\ att[2].kind = "http" /\ att[2].status = 404 /\ att[2].body.error = "m2"
    /\ outcome = "threw" /\ err = "m2"

\* C4 as stated: no analysis is returned from a body whose success flag is
\* false or absent, and when the last call's response is such a body the
\* error thrown carries the body's message, 'Analysis failed' without one.
C4_FailureBodyRaisesItsMessage ==
    /\ (outcome = "returned" => ~Failed(att[result.origin]))
    /\ (pc = "done" /\ Len(att) >= 1 /\ FailureBody(Last(att))
        => outcome = "threw" /\ err = ErrorOr(Last(att).body, "Analysis failed"))

\* C4 as amended: no analysis is returned from a body whose success flag is
\* false or absent; when the last call is answered with an OK status and a
\* JSON object whose success flag is false or absent, the error thrown
\* carries the body's message, 'Analysis failed' without one; an OK body
\* that is the JSON value null raises 'Analysis failed' in the retry and
\* failover snapshots and a TypeError in the first snapshot.
C4_OkFailureBodyRaisesItsMessage ==
    /\ (outcome = "returned"
        => /\ result.origin \in 1..Len(att)
           /\ ~Failed(att[result.origin])
           /\ result = AnalysisOf(att[result.origin].body, result.origin))
    /\ (pc = "done" /\ Len(att) >= 1 /\ FailureBody(Last(att))
          /\ Ok(Last(att).status)
        => /\ outcome = "threw"
           /\ err = ErrorOr(Last(att).body, "Analysis failed"))
    /\ (pc = "done" /\ Len(att) >= 1 /\ NullResponse(Last(att))
          /\ Ok(Last(att).status)
        => /\ outcome = "threw"
           /\ err = IF variant = "direct" THEN "TypeError"
                    ELSE "Analysis failed")

C4_Witness ==
    /\ variant = "failover" /\ pc = "done" /\ Len(att) = 2
    /\ Last(att).kind = "http" /\ Last(att).status = 200
    /\ Last(att).body.success = "false" /\ Last(att).body.error = "m1"
    /\ Last(att).body.sections = "full"
    /\ outcome = "threw" /\ err = "m1"

\* C5: an invocation with an empty idea text sends nothing: no health probe,
\* no POST /analyze, no function call.
C5_EmptyIdeaSendsNothing ==
    (pc # "idle" /\ idea = "") => trace = <<>>

\* C6: failover snapshot: the built-in function is invoked exactly when the
\* Django call has failed; a Django answer of OK with success true is
\* returned and the function is not invoked; each provider is called at most
\* once, Django first.
C6_FallbackIffDjangoFailed ==
    variant = "failover"
    => /\ trace \in {<<"django">>, <<"django", "function">>}
       /\ (Count(trace, "function") = 1 <=> (Len(att) >= 1 /\ Failed(att[1])))
       /\ (Len(att) >= 1 /\ ~Failed(att[1])
           => /\ pc = "done" /\ outcome = "returned" /\ Len(att) = 1
              /\ result = AnalysisOf(att[1].body, 1))

C6_Witness ==
    /\ variant = "failover" /\ pc = "done"
    /\ trace = <<"django", "function">>
    /\ att[1].kind = "http" /\ att[1].status = 200
    /\ att[1].body.success = "false"
    /\ outcome = "returned" /\ result.origin = 2

\* Retry snapshot: one health probe per invocation, sent first; no analyze
\* call while the probe is pending; once the probe has settled, however it
\* did, the analyze call has been made; and the invocation's end is decided
\* by the analyze calls alone.
ProbeDecidesNothing ==
    variant = "retry"
    => /\ trace[1] = "health" /\ Count(trace, "health") = 1
       /\ (pc = "probe" <=> Len(trace) = 1)
       /\ (pc = "probe" <=> probe = "none")
       /\ (pc # "probe" => trace[2] = "analyze")
       /\ (pc = "done"
           => /\ Len(att) >= 1
              /\ IF Failed(Last(att))
                 THEN outcome = "threw" /\ err = FailureText(Last(att))
                      /\ result = NoResult
                 ELSE outcome = "returned" /\ err = "none"
                      /\ result = AnalysisOf(Last(att).body, Len(att)))

\* C7: retry snapshot: exactly one health probe per invocation; the first
\* analyze call is made only after the probe has settled, and is made
\* however the probe settles (response, network error, 12 s timeout); the
\* probe's outcome changes neither the result nor the error.
C7_ProbeNeverDecides ==
    /\ []ProbeDecidesNothing
    /\ ((variant = "retry" /\ pc = "probe") ~> (Count(trace, "analyze") >= 1))

C7_Witness ==
    /\ variant = "retry" /\ probe = "timeout" /\ pc = "done"
    /\ outcome = "returned" /\ result.sections = "full"

\* C8: every invocation of the retry snapshot eventually completes.
C8_InvocationCompletes ==
    (variant = "retry") ~> (pc = "done")

----------------------------------------------------------------------------
(* Properties of the projects table.                                       *)

\* Every row a statement returns to its caller is owned by the caller, and
\* an unauthenticated caller is returned nothing.
ReadsOwnRows ==
    /\ \A r \in lastOp.returned : r.user_id = lastOp.caller
    /\ (lastOp.caller = Anon => lastOp.returned = {})

\* A step that changes a row is taken by an authenticated caller who owns
\* the row before the step (if it existed) and after it (if it exists).
WritesOwnRows ==
    \A i \in ProjectIds :
        rows'[i] # rows[i]
        => /\ lastOp'.caller \in Users
           /\ (Present(rows[i]) => rows[i].user_id = lastOp'.caller)
           /\ (Present(rows'[i]) => rows'[i].user_id = lastOp'.caller)

\* C9: under the row-level policies an authenticated user reads, modifies
\* and deletes only projects whose user_id is the user's own, inserts and
\* updates only to user_id = own, and an unauthenticated caller reads and
\* writes nothing.
C9_RowLevelIsolation == []ReadsOwnRows /\ [][WritesOwnRows]_vars

C9_Witness ==
    /\ \E i \in ProjectIds : Present(rows[i]) /\ rows[i].user_id = "u1"
    /\ \E i \in ProjectIds : Present(rows[i]) /\ rows[i].user_id = "u2"
    /\ lastOp.kind = "select" /\ lastOp.caller = "u2"
    /\ Cardinality(lastOp.returned) = 1

\* C10: a createProject call by an authenticated user stores a project
\* whose user_id is the caller and whose status is pending, and returns it.
C10_CreatedProjectIsOwned ==
    (lastOp.kind = "createProject" /\ lastOp.caller \in Users)
    => /\ lastOp.ok
       /\ lastOp.id \in ProjectIds
       /\ rows[lastOp.id].user_id = lastOp.caller
       /\ rows[lastOp.id].status = "pending"
       /\ lastOp.id \in VisibleIds(lastOp.caller)

\* Every project a read function returned is stored and is the caller's
\* own; a getProject that is not aimed at a stored project of the caller
\* returns no project and ends in the not-found error.
ReadsStoredOwnProjects ==
    lastOp.kind \in {"getProjects", "getProject"}
    => /\ \A r \in lastOp.returned :
             Present(rows[r.id]) /\ rows[r.id].user_id = lastOp.caller
       /\ (lastOp.kind = "getProject"
               /\ ~(Present(rows[lastOp.id])
                      /\ rows[lastOp.id].user_id = lastOp.caller))
           => (~lastOp.ok /\ lastOp.returned = {})

\* A project that is gone stays gone; a deleteProject step removes the
\* caller's own project when aimed at it, and changes no other row.
DeletesOwnProjectForGood ==
    /\ \A i \in ProjectIds :
           (i < nextId /\ ~Present(rows[i])) => ~Present(rows'[i])
    /\ lastOp'.kind = "deleteProject"
        => /\ OwnsRow(lastOp'.caller, rows[lastOp'.id])
                  => rows'[lastOp'.id] = NoRow
           /\ \A i \in ProjectIds :
                  rows'[i] # rows[i]
                  => /\ i = lastOp'.id
                     /\ Present(rows[i])
                     /\ rows[i].user_id = lastOp'.caller

\* C11: once the owner's deleteProject(id) has succeeded, no getProjects
\* of the owner returns the project and the owner's getProject(id) finds
\* nothing; no other user's getProject(id) ever returns the project and no
\* other user's deleteProject(id) removes it.
C11_DeleteIsOwnersAndFinal ==
    []ReadsStoredOwnProjects /\ [][DeletesOwnProjectForGood]_vars

C11_Witness ==
    /\ lastOp.kind = "getProject" /\ lastOp.caller = "u1" /\ ~lastOp.ok
    /\ lastOp.id < nextId /\ ~Present(rows[lastOp.id])
    /\ \E i \in ProjectIds : Present(rows[i]) /\ rows[i].user_id = "u2"

----------------------------------------------------------------------------
(* Properties of the stored record.                                        *)

\* C12: whatever createProject, updateProjectStatus and
\* updateProjectAnalysis calls were made, a project whose status is
\* completed has all seven output columns non-null, and a project that
\* createProject stored is pending with all seven null.
C12_CompletedIsPopulated ==
    /\ \A i \in ProjectIds :
           (Present(rows[i]) /\ rows[i].status = "completed")
           => Populated(rows[i])
    /\ (lastOp.kind = "createProject" /\ lastOp.ok /\ lastOp.id \in ProjectIds)
       => /\ rows[lastOp.id].status = "pending"
          /\ rows[lastOp.id].out = NoOutputs

\* The last call was an update function's and its update matched a row.
UpdateApplied ==
    /\ lastOp.kind \in {"updateProjectStatus", "updateProjectAnalysis"}
    /\ lastOp.ok
    /\ lastOp.id \in ProjectIds

SentColumnsStored ==
    UpdateApplied
    => /\ rows[lastOp.id].status = sent.status
       /\ \A f \in OutputFields :
              sent.out[f] # Unsent => rows[lastOp.id].out[f] = sent.out[f]

\* A step of an update function leaves every column it did not send, and
\* every other row, as they were.
UnsentColumnsKept ==
    lastOp'.kind \in {"updateProjectStatus", "updateProjectAnalysis"}
    => \A i \in ProjectIds :
          /\ rows'[i].user_id = rows[i].user_id
          /\ (i # lastOp'.id => rows'[i] = rows[i])
          /\ \A f \in OutputFields :
                 sent'.out[f] = Unsent => rows'[i].out[f] = rows[i].out[f]

----------------------------------------------------------------------------
(* The retry snapshot's choice between retrying and failing.               *)

\* A first answer the retry is not meant for: a non-success status below
\* 500, or status 200 with a body that does not say success true.
FailsAtOnce(o) ==
    /\ o.kind = "http"
    /\ \/ (~Ok(o.status) /\ o.status < 500)
       \/ (o.status = 200 /\ o.body.success # "true")

\* C19: retry snapshot: the backoff and the second call are taken only
\* after a first attempt that ended in a 5xx status or a transport
\* failure; a first attempt answered with a non-success status below 500,
\* or with 200 and a body without success true, ends the invocation in an
\* error at once, with no backoff and no second call.
C19_RetryOnlyAfter5xxOrTransport ==
    (variant = "retry" /\ Len(att) >= 1)
    => /\ Count(trace, "sleep") >= 1
           => (att[1].kind # "http" \/ att[1].status >= 500)
       /\ FailsAtOnce(att[1])
           => /\ outcome = "threw" /\ pc = "done"
              /\ Count(trace, "sleep") = 0
              /\ Count(trace, "analyze") = 1

----------------------------------------------------------------------------
(* Properties of AuthProvider.                                             *)

\* The step in which checkAuth ends after a non-OK answer or a network
\* error leaves no token stored, user null and loading false.
FailedCheckClears ==
    (check = "me" /\ check' = "done" /\ checked' \in {"refused", "network"})
    => (token' = Null /\ user' = Null /\ ~loading')

\* loading, once false, is not set again.
LoadingStaysOff == ~loading => ~loading'

\* C14: the mount-time check, having found a token, and /auth/me being
\* answered non-OK or failing with a network error: when the check ends
\* the token is removed, user is null and loading is false; however the
\* check ends (no token, valid token, invalid token, network error)
\* loading is false from then on.
C14_FailedCheckSignsOut ==
    /\ [](check = "done" => ~loading)
    /\ [][FailedCheckClears /\ LoadingStaysOff]_vars

C14_Witness ==
    /\ check = "done" /\ checked = "network"
    /\ checkToken # Null
    /\ token = Null /\ user = Null /\ ~loading

\* C20: whenever loading is false and neither the check nor a signIn or
\* signUp call is under way, user is non-null exactly when a token is
\* stored, and the user shown is the one of the last sign-in or sign-up
\* that succeeded.
C20_SessionConsistent ==
    (~loading /\ check = "done" /\ flight = <<>>)
    => /\ (user # Null) <=> (token # Null)
       /\ (user # Null /\ lastAuth # Null) => user = lastAuth

----------------------------------------------------------------------------
(* Properties of AnalysisProgress.                                         *)

\* C17: the progress shown by the simulator is always between 0 and 95
\* percent; it never reaches 100.
C17_ProgressWithinCap ==
    progress >= 0 /\ progress <= 95 * Tenths /\ progress # 100 * Tenths

C17_Witness ==
    /\ isAnalyzing /\ timers = {}
    /\ currentStep = NumSteps - 1
    /\ progress = 95 * Tenths

----------------------------------------------------------------------------
(* Properties of exportToPDF.                                              *)

IsSection(b) == b \in AnalysisKeys
FieldNotNull(a) == project.content[a] # NullContent
FieldHasText(a) == project.content[a] \notin {NullContent, EmptyText}

\* The finished document of a project with no output field set: the title,
\* the idea box, the target market box if there is one, the date line and
\* the footer, on one page.
BareDocument ==
    (\A a \in AnalysisKeys : project.content[a] = NullContent)
    => /\ rendered = <<"title", "idea">>
                        \o (IF project.market THEN <<"market">> ELSE <<>>)
                        \o <<"date", "footer">>
       /\ pages = 1

\* C15 as stated: the finished document has a section block for exactly
\* the fields that are non-null, in AGENT_CARDS order, each once; with all
\* seven null it has the header blocks, no section and one page.
C15_SectionsAreNonNullFields ==
    pdfPc = "done"
    => /\ SelectSeq(rendered, IsSection) = SelectSeq(AGENT_CARDS, FieldNotNull)
       /\ BareDocument

\* C15, amended: the finished document has a section block for exactly
\* the fields that are neither null nor the empty string, in AGENT_CARDS
\* order, each once; with all seven null it has the header blocks, no
\* section and one page.
C15_SectionsAreFieldsWithText ==
    pdfPc = "done"
    => /\ SelectSeq(rendered, IsSection) = SelectSeq(AGENT_CARDS, FieldHasText)
       /\ BareDocument

C15_Witness ==
    /\ pdfPc = "done"
    /\ project.content["marketAnalysis"] = EmptyText
    /\ project.content["costPrediction"] = NullContent
    /\ SelectSeq(rendered, IsSection) = <<"businessStrategy", "techStack">>

\* The lines that can be drawn on a page from y downwards.
Fit(y) ==
    IF y > PageHeight - 20 * Unit THEN 0
    ELSE ((PageHeight - 20 * Unit - y) \div LineHeight) + 1

\* The section last begun has more lines than the rest of its page takes,
\* and no more than that rest and one whole page take.
OverflowsOnce ==
    /\ section.agent # "none"
    /\ WrappedLines(project.content[section.agent]) > Fit(section.firstLineY)
    /\ WrappedLines(project.content[section.agent])
           <= Fit(section.firstLineY) + Fit(TopOfPage)

\* Such a section gets one page added, at the line that no longer fits.
OnePageAdded ==
    OverflowsOnce
    => section.added = IF section.lines > Fit(section.firstLineY) THEN 1 ELSE 0

\* Every header is drawn once.
HeadersOnce ==
    \A i, j \in 1..Len(rendered) : rendered[i] = rendered[j] => i = j

\* A step that draws a line draws the section's next line: below the text
\* drawn before it, or at the top of the page just added.
DrawsNextLine ==
    (drawn'.kind = "line" /\ drawn' # drawn)
    => /\ drawn'.agent = section.agent
       /\ drawn'.line = section.lines + 1
       /\ rendered' = rendered
       /\ \/ /\ drawn'.page = drawn.page
             /\ drawn'.y = drawn.y + (IF drawn.kind = "header"
                                       THEN HeaderAdvance ELSE LineHeight)
          \/ /\ drawn'.page = drawn.page + 1
             /\ drawn'.y = TopOfPage

C18_TextWithinMargins ==
    /\ drawn.kind = "header" => drawn.y <= PageHeight - 60 * Unit
    /\ drawn.kind = "line"
        => /\ drawn.y >= 25 * Unit
           /\ drawn.y <= PageHeight - 20 * Unit
           /\ drawn.y < FooterY
    /\ drawn.kind = "footer" => (drawn.y = FooterY /\ drawn.page = pages)
    /\ drawn.kind # "none" => (drawn.page >= 1 /\ drawn.page <= pages)

C18_Witness ==
    /\ drawn.kind = "line"
    /\ drawn.y = PageHeight - 20 * Unit
    /\ drawn.page = 2

----------------------------------------------------------------------------
(* The results of signIn and signUp.                                       *)

\* A step in which a call starts changes neither token nor user; a step in
\* which a call ends resolves it to { error }, with token and user as they
\* were when the error is set, and with the answer's token stored and its
\* user set when the error is null.
AuthCallEffect ==
    /\ Len(flight') > Len(flight) => (token' = token /\ user' = user)
    /\ Len(flight') < Len(flight)
        => /\ authRet'.t = "return"
           /\ authRet'.error # Null => (token' = token /\ user' = user)
           /\ authRet'.error = Null
               => \E u \in Users : token' = TokenOf[u] /\ user' = u

\* C21: signIn and signUp never raise, every call resolving to { error };
\* a call whose result carries an error leaves the stored token and the
\* user as they were, and the error is null only when the call has stored
\* the returned token and set the user.
C21_AuthCallsResolve ==
    /\ [](authRet.t # "throw")
    /\ [][AuthCallEffect]_vars

C21_Witness ==
    /\ authRet = AuthReturn("TypeError")
    /\ token = TokenOf["u2"] /\ user = "u2"
    /\ flight = <<>>

----------------------------------------------------------------------------
(* The progress simulator, tick by tick.                                   *)

RECURSIVE TicksBefore(_)
\* The ticks the phases before phase i + 1 of ANALYSIS_STEPS last.
TicksBefore(i) ==
    IF i = 0 THEN 0 ELSE TicksBefore(i - 1) + StepDurations[i] * 10

\* The ticks the nominal durations of all phases last.
NominalTicks == TicksBefore(NumSteps)

\* The ticks timer h has counted.
Elapsed(h) == TicksBefore(stepIndex[h]) + stepProgress[h]

\* A tick with isAnalyzing true lowers neither the progress nor the phase,
\* and shows the same phase or the next one of ANALYSIS_STEPS.
TickKeepsOrder ==
    (isAnalyzing /\ isAnalyzing')
        => /\ progress' >= progress
           /\ currentStep' \in {currentStep, currentStep + 1}
           /\ currentStep' \in 0..(NumSteps - 1)

\* A timer counts no longer than the nominal durations.
TimerWithinNominal == \A h \in timers : Elapsed(h) <= NominalTicks

\* The timer stops itself only once the nominal durations have elapsed,
\* with the last phase shown and the progress at 95.
TimerStopsItself ==
    (isAnalyzing /\ isAnalyzing' /\ timers' # timers)
        => /\ timers' = {}
           /\ Elapsed(interval) = NominalTicks
           /\ currentStep' = NumSteps - 1
           /\ progress' = 95 * Tenths

\* The analysis ends, or its timer has stopped itself at the last phase.
TimerStopped ==
    \/ ~isAnalyzing
    \/ timers = {} /\ currentStep = NumSteps - 1 /\ progress = 95 * Tenths

\* C22: while isAnalyzing stays true the progress shown never decreases
\* from tick to tick, the phase index never decreases, stays within 0..4 and
\* moves through ANALYSIS_STEPS in order without skipping a phase; once the
\* nominal durations of all phases have elapsed the timer stops itself with
\* the last phase shown and the progress at 95.
C22_TicksMoveForwardThenStop ==
    /\ [][TickKeepsOrder /\ TimerStopsItself]_vars
    /\ []TimerWithinNominal
    /\ [](isAnalyzing => <>TimerStopped)

C22_Witness ==
    /\ isAnalyzing /\ interval = 1 /\ timers = {}
    /\ currentStep = NumSteps - 1
    /\ progress = 95 * Tenths

----------------------------------------------------------------------------
(* The interval timers of the progress simulator.                          *)

\* No timer but the one the last effect started is active.
OneTimer == Cardinality(timers) <= 1 /\ timers \subseteq {interval}

\* With isAnalyzing false no timer is active and both states are 0.
ResetWhileIdle ==
    ~isAnalyzing => (timers = {} /\ currentStep = 0 /\ progress = 0)

\* isAnalyzing becoming false cancels the timer and resets both states.
StopResets ==
    (isAnalyzing /\ ~isAnalyzing')
        => (timers' = {} /\ currentStep' = 0 /\ progress' = 0)

\* isAnalyzing becoming true starts one timer, counting from phase 0 with
\* phase 0 and progress 0 shown.
StartsFromZero ==
    (~isAnalyzing /\ isAnalyzing')
        => /\ timers' = {interval'} /\ interval' # NoHandle
           /\ stepIndex'[interval'] = 0 /\ stepProgress'[interval'] = 0
           /\ currentStep' = 0 /\ progress' = 0

\* C23: whatever the sequence of isAnalyzing changes, at most one interval
\* timer is active at any time; when isAnalyzing becomes false the timer is
\* cancelled and phase and progress are reset to 0, no tick of an earlier
\* timer changing them afterwards; each new analysis starts again from
\* phase 0 and progress 0.
C23_OneTimerResetOnStop ==
    /\ [](OneTimer /\ ResetWhileIdle)
    /\ [][StopResets /\ StartsFromZero]_vars

C23_Witness ==
    /\ isAnalyzing /\ interval = 2 /\ timers = {2}
    /\ stepIndex[2] = 1 /\ currentStep = 1
    /\ progress > 0

====
